---- MODULE Spec2Model ----
(***************************************************************************)
(* Model of rfc_stats.py: extraction of vote records from the sections of  *)
(* a wiki page (VotePage.get_votes, Vote.from_line, Vote.filter_vote_lines,*)
(* Vote.parse_username, Vote.parse_datetime) and resolution of the voter's *)
(* account (User.load_data, User.data_is_global, GlobalUser).               *)
(*                                                                         *)
(* A line of text is a sequence of tokens.  Every token is a literal       *)
(* piece of text: the single characters "#", "*", ":", "@", "|", "]" and   *)
(* "a", and the multi-character pieces "[[User:", "[[User_talk:", "&amp;"  *)
(* and the date strings.  Of all tokens only "#", "*", ":" begin with one  *)
(* of the characters #, *, : and only "@" ends with the character @, so a  *)
(* test on the first or last character of a token is a test on the token.  *)
(*                                                                         *)
(* Python's None is the empty sequence and a present value v is <<v>>.     *)
(***************************************************************************)
EXTENDS Integers, Sequences, FiniteSets, TLC

VARIABLES
    \* VotePage.get_votes (the generator and what it has yielded)
    sections, limit, pc, sidx, all_lines, lines, i, out,
    \* history of the get_votes run
    processed, fetch_failed, seen,
    \* Vote.filter_vote_lines (the generator, its input so far, its output)
    fin, fout,
    \* Vote.parse_username (argument and returned value)
    pline, pres, ppc,
    \* User.load_data (the User object, the API response, the outcome)
    user, data, upc

vars == <<sections, limit, pc, sidx, all_lines, lines, i, out,
          processed, fetch_failed, seen,
          fin, fout, pline, pres, ppc, user, data, upc>>

votesVars == <<sections, limit, pc, sidx, all_lines, lines, i, out,
               processed, fetch_failed, seen>>
filterVars == <<fin, fout>>
parseVars == <<pline, pres, ppc>>
userVars == <<user, data, upc>>

----------------------------------------------------------------------------
(* Bounds of the model *)

MaxLineLen == 2
MaxFilterInput == 2
MaxTokens == 3
MaxMerged == 2
MaxSectionId == 1
MaxLimit == 2
MaxLines == 2

----------------------------------------------------------------------------
(* Generic helpers *)

None == <<>>
Some(v) == <<v>>

Min(a, b) == IF a <= b THEN a ELSE b

\* all sequences over S of length 0..n
RECURSIVE SeqsUpTo(_, _)
SeqsUpTo(S, n) ==
    IF n = 0 THEN {<<>>}
    ELSE LET shorter == SeqsUpTo(S, n - 1)
         IN  shorter \cup {Append(s, x) : s \in {t \in shorter : Len(t) = n - 1}, x \in S}

----------------------------------------------------------------------------
(* Vote.filter_vote_lines *)

\* the pattern with '*' missing from the excluded characters
ReMatchVoteLine_StarAllowed(line) ==
    /\ Len(line) >= 2
    /\ line[1] = "#"
    /\ line[2] \notin {"#", ":"}

\* re.match(r'#[^#*:]', line): anchored at the start of the line, a '#'
\* followed by one more character that is none of '#', '*', ':'
ReMatchVoteLine(line) ==
    /\ Len(line) >= 2
    /\ line[1] = "#"
    /\ line[2] \notin {"#", "*", ":"}

\* the generator run over a whole list
RECURSIVE filter_vote_lines(_)
filter_vote_lines(ls) ==
    IF ls = <<>> THEN <<>>
    ELSE IF ReMatchVoteLine(Head(ls))
         THEN <<Head(ls)>> \o filter_vote_lines(Tail(ls))
         ELSE filter_vote_lines(Tail(ls))

----------------------------------------------------------------------------
(* Vote.parse_username *)

UserLinkOpeners == {"[[User:", "[[User_talk:"}

\* [^|\]] : any character but '|' and ']'
NameChar(t) == t \notin {"|", "]"}

\* the regular expression matches with its first character at position p:
\* [^@] at p, \[\[User(?:_talk)?: at p+1, at least one name character at p+2
ReMatchesAt(line, p) ==
    /\ p >= 1
    /\ p + 2 <= Len(line)
    /\ line[p] # "@"
    /\ line[p + 1] \in UserLinkOpeners
    /\ NameChar(line[p + 2])

\* ([^|\]]+) is greedy: the longest run of name characters from position q
RECURSIVE NameRun(_, _)
NameRun(line, q) ==
    IF q > Len(line) \/ ~NameChar(line[q]) THEN <<>>
    ELSE <<line[q]>> \o NameRun(line, q + 1)

\* html_parser.unescape: a character entity becomes the character it names
UnescapeToken(t) == IF t = "&amp;" THEN "&" ELSE t

unescape(s) == [k \in 1..Len(s) |-> UnescapeToken(s[k])]

\* re.search returns the match with the leftmost start
parse_username(line) ==
    LET starts == {p \in 1..Len(line) : ReMatchesAt(line, p)}
    IN  IF starts = {} THEN None
        ELSE LET p == CHOOSE q \in starts : \A r \in starts : q <= r
             IN  Some(unescape(NameRun(line, p + 2)))

----------------------------------------------------------------------------
(* Vote.parse_datetime and Api.timestamp_to_datetime *)

\* the strings config.date_regexp matches (the configuration is not part of
\* the source file; the dates are those of the specification's examples)
DateTokens == {"1 April 2024", "3 April 2024"}

\* datetime.strptime(m.group(0), config.date_format); a datetime is <<y, m, d>>
strptime_date(t) ==
    CASE t = "1 April 2024" -> <<2024, 4, 1>>
      [] t = "3 April 2024" -> <<2024, 4, 3>>

\* re.search(config.date_regexp, line): the first date string of the line
parse_datetime(line) ==
    LET hits == {p \in 1..Len(line) : line[p] \in DateTokens}
    IN  IF hits = {} THEN None
        ELSE Some(strptime_date(line[CHOOSE q \in hits : \A r \in hits : q <= r]))

\* timestamps as the API writes them
ApiTimestamps == {"2010-01-01T00:00:00Z", "2012-06-01T00:00:00Z"}

\* datetime.strptime(timestamp, '%Y-%m-%dT%H:%M:%SZ')
timestamp_to_datetime(ts) ==
    CASE ts = "2010-01-01T00:00:00Z" -> <<2010, 1, 1>>
      [] ts = "2012-06-01T00:00:00Z" -> <<2012, 6, 1>>

\* datetime's < : the order of (year, month, day)
DatetimeLess(a, b) ==
    \/ a[1] < b[1]
    \/ a[1] = b[1] /\ a[2] < b[2]
    \/ a[1] = b[1] /\ a[2] = b[2] /\ a[3] < b[3]

----------------------------------------------------------------------------
(* GlobalUser *)

\* User.global_user = False ("not attached")
NotAttached == [kind |-> "False"]

\* GlobalUser.__init__ followed by GlobalUser.from_globaluserinfo
from_globaluserinfo(username, global_data) ==
    LET merged == global_data.merged[1]
    IN  [kind       |-> "GlobalUser",
         username   |-> username,
         home_wiki  |-> Some(global_data.home),
         wikis      |-> Some([k \in 1..Len(merged) |-> merged[k].wiki]),
         wiki_urls  |-> Some([k \in 1..Len(merged) |-> merged[k].url]),
         editcount  |-> Some(global_data.editcount),
         groups     |-> None,
         first_edit |-> None]

\* one pass of the loop body of GlobalUser.load_data over the answer of one site
GlobalUserLoadSite(gu, site) ==
    LET g1 == [gu EXCEPT !.groups = Some(gu.groups[1] \o site.groups)]
    IN  IF Len(site.usercontribs) > 0
        THEN LET first_edit_on_this_wiki == timestamp_to_datetime(site.usercontribs[1])
             IN  IF g1.first_edit = None
                    \/ DatetimeLess(first_edit_on_this_wiki, g1.first_edit[1])
                 THEN [g1 EXCEPT !.first_edit = Some(first_edit_on_this_wiki)]
                 ELSE g1
        ELSE g1

RECURSIVE GlobalUserLoadLoop(_, _, _)
GlobalUserLoadLoop(gu, urls, api) ==
    IF urls = <<>> THEN gu
    ELSE GlobalUserLoadLoop(GlobalUserLoadSite(gu, api[Head(urls)]), Tail(urls), api)

\* GlobalUser.load_data; api[url] is the answer of the site at url
GlobalUser_load_data(gu, api) ==
    GlobalUserLoadLoop([gu EXCEPT !.groups = Some(<<>>)], gu.wiki_urls[1], api)

----------------------------------------------------------------------------
(* User *)

\* User.__init__
NewUser(username) ==
    [username    |-> username,
     global_user |-> None,
     editcount   |-> None,
     groups      |-> None,
     first_edit  |-> None]

AnchorWiki == "commonswiki"

\* any merged account counts, whatever its wiki
data_is_global_AnyWiki(global_data) ==
    /\ global_data.merged # None
    /\ Len(global_data.merged[1]) > 0

\* User.data_is_global
data_is_global(global_data) ==
    /\ global_data.merged # None
    /\ \E k \in 1..Len(global_data.merged[1]) :
           global_data.merged[1][k].wiki = AnchorWiki

\* User.load_data on the API answer d.  The result is the way the call ends
\* ("ok", "NoSuchUser" for NoSuchUserException, "error" for any other
\* exception) and the User object as the call leaves it.
User_load_data(u, d) ==
    IF d.raises
    THEN [outcome |-> "error", user |-> u]
    ELSE IF d.local_data.missing \/ d.local_data.invalid
    THEN [outcome |-> "NoSuchUser", user |-> u]
    ELSE
      LET u1 == [u EXCEPT !.groups = Some(d.local_data.groups),
                          !.editcount = Some(d.local_data.editcount)]
      IN  IF Len(d.usercontribs) = 0
          THEN [outcome |-> "error", user |-> u1]
          ELSE
            LET u2 == [u1 EXCEPT !.first_edit =
                                    Some(timestamp_to_datetime(d.usercontribs[1]))]
            IN  IF data_is_global(d.globaluserinfo)
                THEN [outcome |-> "ok",
                      user |-> [u2 EXCEPT !.global_user =
                                  Some(from_globaluserinfo(u.username, d.globaluserinfo))]]
                ELSE [outcome |-> "ok",
                      user |-> [u2 EXCEPT !.global_user = Some(NotAttached)]]

----------------------------------------------------------------------------
(* The answers of the wiki API *)

Accounts ==
    {[wiki |-> "commonswiki", url |-> "https://commons.wikimedia.org"],
     [wiki |-> "enwiki",      url |-> "https://en.wikipedia.org"],
     [wiki |-> "dewiki",      url |-> "https://de.wikipedia.org"]}

\* meta=globaluserinfo
GlobalInfos ==
    {[merged |-> None, home |-> "", editcount |-> 0]}
    \cup {[merged |-> Some(m), home |-> "enwiki", editcount |-> 7] :
             m \in SeqsUpTo(Accounts, MaxMerged)}

\* an answer to the query of User.load_data, or the call raising
RaisingResponse ==
    [raises |-> TRUE,
     local_data |-> [missing |-> FALSE, invalid |-> FALSE, groups |-> <<>>, editcount |-> 0],
     usercontribs |-> <<>>,
     globaluserinfo |-> [merged |-> None, home |-> "", editcount |-> 0]]

NoAccountResponses ==
    {[RaisingResponse EXCEPT !.raises = FALSE, !.local_data.missing = TRUE],
     [RaisingResponse EXCEPT !.raises = FALSE, !.local_data.invalid = TRUE]}

AccountResponses ==
    {[raises |-> FALSE,
      local_data |-> [missing |-> FALSE, invalid |-> FALSE, groups |-> g, editcount |-> 5],
      usercontribs |-> c,
      globaluserinfo |-> gi] :
        g \in {<<>>, <<"sysop">>},
        c \in {<<>>} \cup {<<t>> : t \in ApiTimestamps},
        gi \in GlobalInfos}

Responses == {RaisingResponse} \cup NoAccountResponses \cup AccountResponses

\* the answers of the member sites to the query of GlobalUser.load_data
MemberSiteApi ==
    [url \in {a.url : a \in Accounts} |->
        CASE url = "https://commons.wikimedia.org" ->
                 [groups |-> <<"sysop">>, usercontribs |-> <<"2012-06-01T00:00:00Z">>]
          [] url = "https://en.wikipedia.org" ->
                 [groups |-> <<"rollbacker">>, usercontribs |-> <<"2010-01-01T00:00:00Z">>]
          [] url = "https://de.wikipedia.org" ->
                 [groups |-> <<>>, usercontribs |-> <<>>]]

Usernames == {<<"a">>, <<"&">>}

----------------------------------------------------------------------------
(* Values of the variables a specification does not use *)

IdleVotes ==
    /\ sections = <<>> /\ limit = None /\ pc = "idle" /\ sidx = 0
    /\ all_lines = <<>> /\ lines = <<>> /\ i = 0 /\ out = <<>>
    /\ processed = <<>> /\ fetch_failed = 0 /\ seen = 0

IdleFilter == fin = <<>> /\ fout = <<>>

IdleParse == pline = <<>> /\ pres = None /\ ppc = "idle"

IdleUser == user = NewUser(<<>>) /\ data = None /\ upc = "idle"

----------------------------------------------------------------------------
(* Specification SpecFilter: Vote.filter_vote_lines over every input *)

FilterChars == {"#", "*", ":", "a"}

FilterLines == SeqsUpTo(FilterChars, MaxLineLen)

FilterInit == fin = <<>> /\ fout = <<>> /\ IdleVotes /\ IdleParse /\ IdleUser

\* the loop takes the next line of its input and yields it
FilterYield ==
    /\ Len(fin) < MaxFilterInput
    /\ \E line \in FilterLines :
          /\ ReMatchVoteLine(line)
          /\ fin' = Append(fin, line)
          /\ fout' = Append(fout, line)
    /\ UNCHANGED <<votesVars, parseVars, userVars>>

\* the loop takes the next line of its input and passes over it
FilterSkip ==
    /\ Len(fin) < MaxFilterInput
    /\ \E line \in FilterLines :
          /\ ~ReMatchVoteLine(line)
          /\ fin' = Append(fin, line)
          /\ fout' = fout
    /\ UNCHANGED <<votesVars, parseVars, userVars>>

FilterNext == FilterYield \/ FilterSkip

SpecFilter == FilterInit /\ [][FilterNext]_vars

----------------------------------------------------------------------------
(* Specification SpecParse: Vote.parse_username over every line *)

ParseTokens == {"@", "[[User:", "[[User_talk:", "|", "]", "a", "&amp;"}

ParseInit ==
    /\ pline \in SeqsUpTo(ParseTokens, MaxTokens)
    /\ pres = None
    /\ ppc = "call"
    /\ IdleVotes /\ IdleFilter /\ IdleUser

ParseUsername ==
    /\ ppc = "call"
    /\ pres' = parse_username(pline)
    /\ ppc' = "returned"
    /\ UNCHANGED <<pline, votesVars, filterVars, userVars>>

ParseNext == ParseUsername

SpecParse == ParseInit /\ [][ParseNext]_vars

----------------------------------------------------------------------------
(* Specification SpecUser: User.load_data over every answer of the API *)

UserInit ==
    /\ user \in {NewUser(n) : n \in Usernames}
    /\ data = None
    /\ upc = "new"
    /\ IdleVotes /\ IdleFilter /\ IdleParse

UserLoadData ==
    /\ upc = "new"
    /\ \E d \in Responses :
          LET r == User_load_data(user, d)
          IN  /\ user' = r.user
              /\ data' = Some(d)
              /\ upc' = r.outcome
    /\ UNCHANGED <<votesVars, filterVars, parseVars>>

UserNext == UserLoadData

SpecUser == UserInit /\ [][UserNext]_vars

----------------------------------------------------------------------------
(* Vote.from_line *)

\* Vote.__init__
NewVote ==
    [section_label |-> None, text |-> None, user |-> None,
     datetime |-> None, local_gap |-> None, global_gap |-> None]

\* the second except clause does not raise again
from_line_ErrorSwallowed(line, section_label, d) ==
    LET vote == [NewVote EXCEPT !.section_label = Some(section_label),
                                !.text = Some(line),
                                !.datetime = parse_datetime(line)]
        username == parse_username(line)
    IN  IF username # None /\ username[1] # <<>>
        THEN LET r == User_load_data(NewUser(username[1]), d)
             IN  IF r.outcome = "NoSuchUser"
                 THEN [raised |-> FALSE, vote |-> [vote EXCEPT !.user = None]]
                 ELSE [raised |-> FALSE, vote |-> [vote EXCEPT !.user = Some(r.user)]]
        ELSE [raised |-> FALSE, vote |-> vote]

\* Vote.from_line(page, line, section_label), d being the answer of the API
\* to the query of User.load_data.  Either the call raises or it returns a Vote.
from_line(line, section_label, d) ==
    LET vote == [NewVote EXCEPT !.section_label = Some(section_label),
                                !.text = Some(line),
                                !.datetime = parse_datetime(line)]
        username == parse_username(line)
    IN  IF username # None /\ username[1] # <<>>
        THEN LET r == User_load_data(NewUser(username[1]), d)
             IN  CASE r.outcome = "NoSuchUser" ->
                        [raised |-> FALSE, vote |-> [vote EXCEPT !.user = None]]
                   [] r.outcome = "error" ->
                        [raised |-> TRUE, vote |-> [vote EXCEPT !.user = Some(r.user)]]
                   [] r.outcome = "ok" ->
                        [raised |-> FALSE, vote |-> [vote EXCEPT !.user = Some(r.user)]]
        ELSE [raised |-> FALSE, vote |-> vote]

----------------------------------------------------------------------------
(* VotePage *)

Labels == {"Support", "Oppose"}

SectionIds == 0..MaxSectionId

\* sections.items() of a dict with the keys Labels: the items in any order
SectionItems ==
    {<<<<l1, n1>>, <<l2, n2>>>> :
        l1 \in Labels, l2 \in Labels, n1 \in SectionIds, n2 \in SectionIds}

\* sorted(..., key=lambda t: t[1]) is stable: insert x behind every item whose
\* key is not greater
RECURSIVE InsertByKey(_, _)
InsertByKey(x, sorted) ==
    IF sorted = <<>> THEN <<x>>
    ELSE IF Head(sorted)[2] <= x[2]
         THEN <<Head(sorted)>> \o InsertByKey(x, Tail(sorted))
         ELSE <<x>> \o sorted

RECURSIVE SortedByKey(_)
SortedByKey(items) ==
    IF items = <<>> THEN <<>>
    ELSE InsertByKey(items[Len(items)], SortedByKey(SubSeq(items, 1, Len(items) - 1)))

\* the items are left in the order of the dict
create_ordered_dict_Unsorted(items) == items

\* VotePage.create_ordered_dict
create_ordered_dict(items) == SortedByKey(items)

\* the lines of the discussion page
SignedLine == <<"#", "a", "[[User:", "a", "]", "3 April 2024">>

UnsignedLine == <<"#", "a", "1 April 2024">>

NestedLine == <<"#", ":", "[[User:", "a", "]">>

PageLines == {SignedLine, UnsignedLine, NestedLine}

\* the texts of a section, split into lines
Texts == SeqsUpTo(PageLines, MaxLines)

\* Api.get_section_text(...).splitlines() for one section id: the ways the
\* call can end.  Section id 0 is refused with ValueError; any other call
\* can fail in the transport, or find no revision and return None, on which
\* splitlines() raises.
get_section_text(section_id) ==
    IF section_id = 0
    THEN {[raises |-> TRUE, text |-> <<>>]}
    ELSE {[raises |-> TRUE, text |-> <<>>]}
         \cup {[raises |-> FALSE, text |-> t] : t \in Texts}

\* the answers of the API to the query of User.load_data seen during a run:
\* the call raising, a missing account, an account without contributions
\* and a federated account
VoteResponses ==
    {d \in Responses :
        \/ d.raises
        \/ d.local_data.missing
        \/ /\ d \in AccountResponses
           /\ d.local_data.groups = <<>>
           /\ \/ d.usercontribs = <<>> /\ d.globaluserinfo.merged = None
              \/ /\ d.usercontribs = <<"2010-01-01T00:00:00Z">>
                 /\ d.globaluserinfo.merged =
                       Some(<<[wiki |-> "commonswiki",
                               url |-> "https://commons.wikimedia.org"]>>)}

\* how resolving the author of a line ended
Resolution(line, d) ==
    LET username == parse_username(line)
    IN  IF username = None \/ username[1] = <<>> THEN "unsigned"
        ELSE User_load_data(NewUser(username[1]), d).outcome

\* position in all_lines of the candidate line that is k-th in lines order
RECURSIVE CandidatePositions(_, _)
CandidatePositions(text, from) ==
    IF from > Len(text) THEN <<>>
    ELSE IF ReMatchVoteLine(text[from])
         THEN <<from>> \o CandidatePositions(text, from + 1)
         ELSE CandidatePositions(text, from + 1)

----------------------------------------------------------------------------
(* Specification Spec: a run of VotePage.get_votes(limit=limit), called as  *)
(* the driver calls it, with no section argument                            *)

Init ==
    /\ sections \in {create_ordered_dict(items) :
                        items \in {it \in SectionItems : it[1][1] # it[2][1]}}
    /\ limit \in {None} \cup {Some(n) : n \in 0..MaxLimit}
    /\ pc = "section"
    /\ sidx = 0
    /\ all_lines = <<>>
    /\ lines = <<>>
    /\ i = 0
    /\ out = <<>>
    /\ processed = <<>>
    /\ fetch_failed = 0
    /\ seen = 0
    /\ IdleFilter /\ IdleParse /\ IdleUser

\* the outer loop takes the next section; get_vote_lines fetches its text
GetVoteLines ==
    /\ pc = "section"
    /\ sidx < Len(sections)
    /\ \E r \in get_section_text(sections[sidx + 1][2]) :
          /\ ~r.raises
          /\ all_lines' = r.text
          /\ lines' = filter_vote_lines(r.text)
          /\ seen' = seen + Len(filter_vote_lines(r.text))
    /\ sidx' = sidx + 1
    /\ pc' = "line"
    /\ UNCHANGED <<sections, limit, i, out, processed, fetch_failed>>
    /\ UNCHANGED <<filterVars, parseVars, userVars>>

\* the fetch raises: nothing in get_votes catches it
GetVoteLinesRaises ==
    /\ pc = "section"
    /\ sidx < Len(sections)
    /\ \E r \in get_section_text(sections[sidx + 1][2]) : r.raises
    /\ sidx' = sidx + 1
    /\ fetch_failed' = sidx + 1
    /\ pc' = "aborted"
    /\ UNCHANGED <<sections, limit, all_lines, lines, i, out, processed, seen>>
    /\ UNCHANGED <<filterVars, parseVars, userVars>>

\* an exception of from_line leaves the generator
AfterLine_ErrorPropagates(raised, n) ==
    IF raised THEN "aborted"
    ELSE IF Some(n) = limit THEN "done" ELSE "line"

\* where get_votes stands after the line that made the counter n: the
\* exception of from_line is passed over, then i == limit is tested
AfterLine(raised, n) ==
    IF Some(n) = limit THEN "done" ELSE "line"

\* the body of the inner loop for the next candidate line
GetVotesLine ==
    /\ pc = "line"
    /\ lines # <<>>
    /\ i' = i + 1
    /\ \E d \in VoteResponses :
          LET r == from_line(Head(lines), sections[sidx][1], d)
              k == Len(filter_vote_lines(all_lines)) - Len(lines) + 1
          IN  /\ out' = IF r.raised THEN out ELSE Append(out, r.vote)
              /\ processed' = Append(processed,
                    [sec |-> sidx,
                     pos |-> CandidatePositions(all_lines, 1)[k],
                     section_label |-> sections[sidx][1],
                     text |-> Head(lines),
                     raised |-> r.raised,
                     resolved |-> Resolution(Head(lines), d)])
              /\ pc' = AfterLine(r.raised, i + 1)
    /\ lines' = Tail(lines)
    /\ UNCHANGED <<sections, limit, sidx, all_lines, fetch_failed, seen>>
    /\ UNCHANGED <<filterVars, parseVars, userVars>>

\* the inner loop ends
GetVotesSectionEnd ==
    /\ pc = "line"
    /\ lines = <<>>
    /\ pc' = "section"
    /\ UNCHANGED <<sections, limit, sidx, all_lines, lines, i, out,
                   processed, fetch_failed, seen>>
    /\ UNCHANGED <<filterVars, parseVars, userVars>>

\* the outer loop ends
GetVotesEnd ==
    /\ pc = "section"
    /\ sidx = Len(sections)
    /\ pc' = "done"
    /\ UNCHANGED <<sections, limit, sidx, all_lines, lines, i, out,
                   processed, fetch_failed, seen>>
    /\ UNCHANGED <<filterVars, parseVars, userVars>>

Next ==
    \/ GetVoteLines
    \/ GetVoteLinesRaises
    \/ GetVotesLine
    \/ GetVotesSectionEnd
    \/ GetVotesEnd

Spec == Init /\ [][Next]_vars

----------------------------------------------------------------------------
(* Properties of VotePage.get_votes (specification Spec) *)

\* the candidate lines whose Vote was yielded
Yielded == SelectSeq(processed, LAMBDA e : ~e.raised)

\* C1: every candidate line processed by get_votes has its Vote in the
\* output, with text, section label and timestamp of the line, and with the
\* user absent when resolving the author failed (NoSuchUserException or any
\* other error)
C1_FailedResolutionStillYields ==
    /\ Len(out) = Len(processed)
    /\ \A k \in 1..Len(processed) :
          /\ out[k].text = Some(processed[k].text)
          /\ out[k].section_label = Some(processed[k].section_label)
          /\ out[k].datetime = parse_datetime(processed[k].text)
          /\ processed[k].resolved \in {"NoSuchUser", "error"} => out[k].user = None

\* C2: a run with limit N that has ended normally has yielded min(N, T)
\* Votes, T being the number of candidate lines.  seen counts the candidate
\* lines of the sections fetched; a run that returns before the last section
\* has i = N <= seen <= T, so min(N, seen) = min(N, T) in every final state.
C2_LimitYieldsMin ==
    (pc = "done" /\ limit # None) => Len(out) = Min(limit[1], seen)

\* C5: an error of a section fetch ends the run with that error and no Vote
\* of that or a later section is yielded; an error of an author resolution
\* never does: the run is aborted only by a fetch, and a run that ended
\* without reaching its limit has processed every candidate line of every
\* section
C5_FailureAsymmetry ==
    /\ fetch_failed # 0 =>
          /\ pc = "aborted"
          /\ \A k \in 1..Len(processed) : processed[k].sec < fetch_failed
    /\ pc = "aborted" => fetch_failed # 0
    /\ (pc = "done" /\ Some(i) # limit) =>
          /\ sidx = Len(sections)
          /\ Len(processed) = seen

\* C5 witness: a resolution failed in the first section and a line of the
\* second section was processed afterwards
C5_Witness ==
    /\ Len(processed) >= 2
    /\ processed[1].resolved = "error"
    /\ processed[1].sec = 1
    /\ processed[Len(processed)].sec = 2

FullyLoaded(u) ==
    /\ u.editcount # None
    /\ u.groups # None
    /\ u.first_edit # None
    /\ u.global_user # None
    /\ u.global_user[1].kind \in {"False", "GlobalUser"}

\* C10: the user of a yielded Vote is absent or fully loaded
C10_YieldedUserLoaded ==
    \A k \in 1..Len(out) :
        out[k].user = None \/ FullyLoaded(out[k].user[1])

\* C10 witness: after a resolution that failed inside load_data, a Vote
\* without user and a Vote with a loaded user have been yielded
C10_Witness ==
    /\ Len(processed) = 3
    /\ processed[1].resolved = "error"
    /\ processed[2].resolved = "NoSuchUser"
    /\ processed[3].resolved = "ok"
    /\ Len(out) = 2
    /\ out[1].user = None
    /\ out[2].user # None /\ out[2].user[1].global_user[1].kind = "GlobalUser"

----------------------------------------------------------------------------
(* Properties of Vote.filter_vote_lines (specification SpecFilter) *)

ListMarker == "#"

ExcludedMarkers == {"#", "*", ":"}

\* a line whose first character is the list marker and whose second
\* character is none of the excluded markers
TopLevelItem(line) ==
    /\ Len(line) >= 2
    /\ Head(line) = ListMarker
    /\ \A m \in ExcludedMarkers : line[2] # m

\* a line the claim names as left out
NamedLeftOut(line) ==
    \/ line = <<>>
    \/ Head(line) # ListMarker
    \/ Len(line) >= 2 /\ Head(line) = ListMarker /\ line[2] \in ExcludedMarkers

\* C7: the output is the input restricted to the top-level items, unchanged
\* and in input order; no line that starts with the list marker followed by
\* an excluded marker, and no line that does not start with the list marker,
\* is in the output; the empty input gives the empty output
C7_FilterKeepsTopLevelItems ==
    /\ fout = SelectSeq(fin, TopLevelItem)
    /\ \A k \in 1..Len(fin) : NamedLeftOut(fin[k]) =>
          \A m \in 1..Len(fout) : fout[m] # fin[k]
    /\ fin = <<>> => fout = <<>>

\* C7 witness: a line with an excluded marker has been passed over
\* after a line that was yielded
C7_Witness ==
    /\ Len(fin) = MaxFilterInput
    /\ fin[1] = <<"#", "a">>
    /\ fin[Len(fin)] = <<"#", "*">>
    /\ fout = <<<<"#", "a">>>>

----------------------------------------------------------------------------
(* Properties of Vote.parse_username (specification SpecParse) *)

\* a link to a user page or user talk page at position p, with a name, not
\* immediately preceded by the mention marker
UnmentionedUserLink(line, p) ==
    /\ line[p] \in UserLinkOpeners
    /\ p + 1 <= Len(line)
    /\ NameChar(line[p + 1])
    /\ p = 1 \/ line[p - 1] # "@"

\* the value the claim gives to parse_username
LeftmostUnmentionedUser(line) ==
    LET links == {p \in 1..Len(line) : UnmentionedUserLink(line, p)}
    IN  IF links = {} THEN None
        ELSE LET p == CHOOSE q \in links : \A r \in links : q <= r
             IN  Some(unescape(NameRun(line, p + 1)))

\* C8: parse_username returns the user name of the leftmost user link not
\* preceded by '@', wherever the link stands, and None exactly when there is
\* no such link
C8_LeftmostUnmentionedLink ==
    ppc = "returned" => pres = LeftmostUnmentionedUser(pline)

\* what the code does: the link must also have a character before it
C8_CodeNeedsPrecedingCharacter ==
    ppc = "returned" =>
        LET links == {p \in 2..Len(pline) : UnmentionedUserLink(pline, p)}
        IN  IF links = {} THEN pres = None
            ELSE pres = Some(unescape(NameRun(pline,
                        (CHOOSE q \in links : \A r \in links : q <= r) + 1)))

----------------------------------------------------------------------------
(* Properties of User.load_data (specification SpecUser) *)

Range(f) == {f[k] : k \in DOMAIN f}

\* the anchor site is in the merged member list of the answer
AnchorInMerged ==
    /\ data[1].globaluserinfo.merged # None
    /\ AnchorWiki \in {a.wiki : a \in Range(data[1].globaluserinfo.merged[1])}

\* C4: after a load_data that completed, global_user is a GlobalUser if and
\* only if the anchor site is in the merged member list, and is False
\* otherwise
C4_FederatedIffAnchor ==
    upc = "ok" =>
        /\ user.global_user # None
        /\ user.global_user[1].kind = "GlobalUser" <=> AnchorInMerged
        /\ ~AnchorInMerged => user.global_user = Some(NotAttached)
        /\ AnchorInMerged =>
              user.global_user[1].wikis =
                 Some([k \in 1..Len(data[1].globaluserinfo.merged[1]) |->
                          data[1].globaluserinfo.merged[1][k].wiki])

\* C4 witness: merged member sites without the anchor site, not federated
C4_Witness ==
    /\ upc = "ok"
    /\ data[1].globaluserinfo.merged # None
    /\ Len(data[1].globaluserinfo.merged[1]) = MaxMerged
    /\ ~AnchorInMerged
    /\ user.global_user = Some(NotAttached)

\* the answer is that of an existing, valid account
ExistingAccount ==
    /\ upc \notin {"new", "idle"}
    /\ ~data[1].raises
    /\ ~data[1].local_data.missing
    /\ ~data[1].local_data.invalid

\* C9: for an existing, valid account load_data completes; first_edit is
\* the earliest local contribution, or absent with the other local fields
\* loaded when there is no local contribution
C9_NoLocalEditsStillLoads ==
    ExistingAccount =>
        /\ upc = "ok"
        /\ user.groups = Some(data[1].local_data.groups)
        /\ user.editcount = Some(data[1].local_data.editcount)
        /\ user.first_edit =
              IF data[1].usercontribs = <<>> THEN None
              ELSE Some(timestamp_to_datetime(data[1].usercontribs[1]))

\* the member sites of the federated profile attached to user
MemberUrls == Range(user.global_user[1].wiki_urls[1])

\* the first contributions found on the member sites
MemberFirstEdits ==
    {timestamp_to_datetime(MemberSiteApi[url].usercontribs[1]) :
        url \in {u \in MemberUrls : MemberSiteApi[u].usercontribs # <<>>}}

\* C3: a federated profile attached by load_data is the one completed by
\* GlobalUser.load_data: its groups are the union of the roles found on the
\* member sites and its first_edit the earliest first contribution there
C3_FederatedProfileComplete ==
    (upc = "ok" /\ user.global_user[1].kind = "GlobalUser") =>
        /\ user.global_user[1] =
              GlobalUser_load_data(
                  from_globaluserinfo(user.username, data[1].globaluserinfo),
                  MemberSiteApi)
        /\ user.global_user[1].groups # None
        /\ Range(user.global_user[1].groups[1]) =
              UNION {Range(MemberSiteApi[url].groups) : url \in MemberUrls}
        /\ MemberFirstEdits # {} =>
              /\ user.global_user[1].first_edit # None
              /\ user.global_user[1].first_edit[1] \in MemberFirstEdits
              /\ \A t \in MemberFirstEdits :
                    ~DatetimeLess(t, user.global_user[1].first_edit[1])

====
